---- MODULE Spec2Model ----
(***************************************************************************)
(* The Game module of js/leaderboard.js (guess analysis, scoring, attempt  *)
(* and hint budgets, countdown timer) as a state machine.                  *)
(*                                                                         *)
(* The Leaderboard module of the same file (score list over localStorage)  *)
(* and the commands of js/ui.js that tie the two together.                 *)
(*                                                                         *)
(* Strings are sequences of one-character strings ("1122" is               *)
(* <<"1","1","2","2">>).  A handle returned by setInterval is a positive   *)
(* integer; 0 stands for null (both are falsy in the source's tests).      *)
(* startTime (Date.now()) and the time field of a guess entry are never    *)
(* read by the engine and are left out.                                    *)
(***************************************************************************)
EXTENDS Integers, Sequences, FiniteSets, TLC

VARIABLES
    secret, attempts, maxAttempts, gameOver, guesses, hintsUsed, maxHints,
    difficulty, timerMode, timerDuration, timerInterval, timeLeft,
    onUpdate, onTimerTick, onGameEnd,
    intervals,      \* the schedules setInterval has made and clearInterval has not cancelled
    lastOp,         \* the last operation run and its input
    result,         \* what that operation returned
    fired,          \* the callbacks that operation invoked, in order
    ticks,          \* history: countdown ticks run since the last reset()
    ended,          \* history: outcomes passed to onGameEnd since the last reset()
    scores,         \* Leaderboard: the score list in memory
    boardOnUpdate,  \* Leaderboard: its onUpdate callback
    localStorage    \* the items of the browser's store the program uses

vars == <<secret, attempts, maxAttempts, gameOver, guesses, hintsUsed, maxHints,
          difficulty, timerMode, timerDuration, timerInterval, timeLeft,
          onUpdate, onTimerTick, onGameEnd, intervals, lastOp, result, fired,
          ticks, ended, scores, boardOnUpdate, localStorage>>

boardVars == <<scores, boardOnUpdate, localStorage>>

----------------------------------------------------------------------------
(* Bounds of the model *)

\* setTimerMode is called with durations 0..MaxDuration
MaxDuration == 2

\* with maxAttempts undefined no guess is ever the last: at most MaxOpenGuesses are made
MaxOpenGuesses == 2

\* with maxHints undefined no hint is ever the last: at most MaxOpenHints are taken
MaxOpenHints == 1

\* saveScoreWithName is run while the score list holds fewer than MaxSaves entries
MaxSaves == 1

\* calculateScore is compared over 0..ScoreAttempts attempts
ScoreAttempts == 20

\* the guess-analysis specification ranges over all 4-character strings of digits 1..MaxDigit
MaxDigit == 4

----------------------------------------------------------------------------
(* Values *)

DigitChars == <<"0", "1", "2", "3", "4", "5", "6", "7", "8", "9">>

IsDigit(c) == \E k \in 1..Len(DigitChars) : DigitChars[k] = c

\* values Math.floor(Math.random() * 10000) takes in the model
SecretNumbers == {7, 1122}

\* a wrong guess the player may type again and again
Decoy == <<"1", "2", "3", "4">>

\* inputs /^\d{4}$/ rejects: too short, too long, a non-digit character
InvalidInputs == { <<"1", "2", "3">>, <<"1", "2", "3", "4", "5">>, <<"1", "2", "a", "4">> }

\* positions Math.floor(Math.random() * 4) takes
HintPositions == 0..3

\* the default of setTimerMode's second parameter
DefaultSeconds == 60

\* names setDifficulty is called with: the three levels, a name no object has,
\* and a name every object inherits from Object.prototype
Levels == {"easy", "medium", "hard", "expert", "constructor"}

\* the properties an object literal inherits from Object.prototype
InheritedKeys == {"constructor", "toString", "toLocaleString", "valueOf", "hasOwnProperty",
                  "isPrototypeOf", "propertyIsEnumerable", "__proto__"}

\* the value undefined held by a variable the code uses as a number
UndefinedNumber == -1

\* a >= b of JavaScript: false when an operand is undefined (it converts to NaN)
jsGeq(a, b) == a # UndefinedNumber /\ b # UndefinedNumber /\ a >= b

\* a - b of JavaScript: NaN when an operand is undefined; NaN is held as UndefinedNumber
jsMinus(a, b) == IF a = UndefinedNumber \/ b = UndefinedNumber THEN UndefinedNumber ELSE a - b

\* what a function without a return statement returns
Undefined == [undefined |-> TRUE]

Min(a, b) == IF a < b THEN a ELSE b
Max(a, b) == IF a > b THEN a ELSE b

\* s[i] of a JavaScript string or array, 0-based: undefined past the end
CharAt(s, i) == IF i + 1 <= Len(s) THEN s[i + 1] ELSE "undefined"

\* Number.prototype.toString(): decimal digits, no leading zeros
RECURSIVE toString(_)
toString(n) == IF n < 10 THEN <<DigitChars[n + 1]>>
               ELSE Append(toString(n \div 10), DigitChars[(n % 10) + 1])

\* String.prototype.padStart(len, ch)
RECURSIVE padStart(_, _, _)
padStart(s, len, ch) == IF Len(s) >= len THEN s ELSE padStart(<<ch>> \o s, len, ch)

DIFFICULTY_SETTINGS ==
    [ easy   |-> [attempts |-> 6,  hints |-> 5],
      medium |-> [attempts |-> 15, hints |-> 3],
      hard   |-> [attempts |-> 15, hints |-> 0] ]

\* DIFFICULTY_SETTINGS[level]: an own property, or one found on Object.prototype
\* (a function or object that has no attempts and no hints), or undefined
hasSetting(level) == level \in DOMAIN DIFFICULTY_SETTINGS \/ level \in InheritedKeys

settingOf(level) ==
    IF level \in DOMAIN DIFFICULTY_SETTINGS THEN DIFFICULTY_SETTINGS[level]
    ELSE [attempts |-> UndefinedNumber, hints |-> UndefinedNumber]

----------------------------------------------------------------------------
(* localStorage.  An item is absent (getItem returns null) or holds a text: *)
(* one that JSON.parse rejects, one that parses to something that is not    *)
(* an array, or the JSON of an array.  The three statistics are decimal     *)
(* numerals written by the program; parseInt(getItem(k) || '0') of an       *)
(* absent item and of '0' are both 0, and the model holds the number.       *)

Absent == [text |-> "absent"]
Garbage == [text |-> "garbage"]
NumberText == [text |-> "number"]

\* JSON.stringify of an array of entries, and JSON.parse of such a text
stringify(list) == [text |-> "array", value |-> list]
parse(item) == item.value

EmptyStore == [ cyber_lock_scores |-> Absent, scores |-> Absent,
                totalGames |-> 0, totalWins |-> 0, bestScore |-> 0 ]

\* how the store answers during one operation: it works, or its getItem and
\* setItem throw.  (A store whose setItem alone throws acts like the first
\* in the operations that only read and like the second in those that write.)
StoreFaults == {"none", "throws"}

----------------------------------------------------------------------------
(* The engine's state as one record, so that a function of the source is   *)
(* an operator from state to state.                                        *)

Cur == [ secret |-> secret, attempts |-> attempts, maxAttempts |-> maxAttempts,
         gameOver |-> gameOver, guesses |-> guesses, hintsUsed |-> hintsUsed,
         maxHints |-> maxHints, difficulty |-> difficulty, timerMode |-> timerMode,
         timerDuration |-> timerDuration, timerInterval |-> timerInterval,
         timeLeft |-> timeLeft, onUpdate |-> onUpdate, onTimerTick |-> onTimerTick,
         onGameEnd |-> onGameEnd, intervals |-> intervals,
         result |-> result, fired |-> <<>> ]

Fire(st, ev) == [st EXCEPT !.fired = Append(@, ev)]

\* setInterval: a handle no live schedule has.  (The engine nulls timerInterval
\* whenever it cancels, so it never holds a handle of a cancelled schedule.)
setInterval(st) ==
    LET id == CHOOSE i \in 1..(Cardinality(st.intervals) + 1) :
                  /\ i \notin st.intervals
                  /\ \A j \in 1..(i - 1) : j \in st.intervals
    IN  [st EXCEPT !.intervals = @ \cup {id}, !.timerInterval = id]

clearInterval(st, h) == [st EXCEPT !.intervals = @ \ {h}]

\* calculateScore without its floor of 100
calculateScore_NoFloor(st, attemptsUsed, exactMatches) ==
    1000 - attemptsUsed * 50 - st.hintsUsed * 100
        + (IF st.timerMode /\ st.timeLeft > 0 THEN st.timeLeft * 10 ELSE 0)

calculateScore(st, attemptsUsed, exactMatches) ==
    LET baseScore      == 1000
        attemptPenalty == attemptsUsed * 50
        hintPenalty    == st.hintsUsed * 100
        timeBonus      == IF st.timerMode /\ st.timeLeft > 0 THEN st.timeLeft * 10 ELSE 0
        finalScore     == baseScore - attemptPenalty - hintPenalty + timeBonus
    IN  Max(finalScore, 100)

\* getState handing out the secret while the game runs
getState_Unmasked(st) ==
    [ secret            |-> st.secret,
      attempts          |-> st.attempts,
      maxAttempts       |-> st.maxAttempts,
      gameOver          |-> st.gameOver,
      guesses           |-> st.guesses,
      hintsUsed         |-> st.hintsUsed,
      maxHints          |-> st.maxHints,
      remainingAttempts |-> jsMinus(st.maxAttempts, st.attempts),
      remainingHints    |-> jsMinus(st.maxHints, st.hintsUsed),
      difficulty        |-> st.difficulty,
      timerMode         |-> st.timerMode,
      timeLeft          |-> st.timeLeft,
      timerDuration     |-> st.timerDuration,
      score             |-> calculateScore(st, st.attempts, 0) ]

getState(st) ==
    [ secret            |-> IF st.gameOver THEN st.secret ELSE <<"?", "?", "?", "?">>,
      attempts          |-> st.attempts,
      maxAttempts       |-> st.maxAttempts,
      gameOver          |-> st.gameOver,
      guesses           |-> st.guesses,
      hintsUsed         |-> st.hintsUsed,
      maxHints          |-> st.maxHints,
      remainingAttempts |-> jsMinus(st.maxAttempts, st.attempts),
      remainingHints    |-> jsMinus(st.maxHints, st.hintsUsed),
      difficulty        |-> st.difficulty,
      timerMode         |-> st.timerMode,
      timeLeft          |-> st.timeLeft,
      timerDuration     |-> st.timerDuration,
      score             |-> calculateScore(st, st.attempts, 0) ]

notifyUpdate(st) ==
    IF st.onUpdate = "set" THEN Fire(st, [cb |-> "onUpdate", state |-> getState(st)]) ELSE st

\* startTimer making no schedule
startTimer_NoSchedule(st) == st

startTimer(st) == setInterval(st)

\* resetTimer starting a countdown without cancelling the one that runs
resetTimer_NoCancel(st) ==
    IF st.timerMode THEN startTimer([st EXCEPT !.timeLeft = st.timerDuration]) ELSE st

resetTimer(st) ==
    LET c == IF st.timerInterval # 0
             THEN [clearInterval(st, st.timerInterval) EXCEPT !.timerInterval = 0]
             ELSE st
    IN  IF c.timerMode THEN startTimer([c EXCEPT !.timeLeft = c.timerDuration]) ELSE c

\* reset leaving the countdown of the previous game alone
reset_LeavesTimer(st, n) ==
    notifyUpdate([st EXCEPT !.secret = padStart(toString(n), 4, "0"),
                            !.attempts = 0, !.gameOver = FALSE,
                            !.guesses = <<>>, !.hintsUsed = 0])

\* n is the value of Math.floor(Math.random() * 10000)
reset(st, n) ==
    LET a == [st EXCEPT !.secret = padStart(toString(n), 4, "0"),
                        !.attempts = 0, !.gameOver = FALSE,
                        !.guesses = <<>>, !.hintsUsed = 0]
        b == IF a.timerMode THEN resetTimer(a) ELSE a
    IN  notifyUpdate(b)

timeUp(st) == st.timeLeft <= 0

\* the body of the function startTimer hands to setInterval
timerCallback(st) ==
    LET a == [st EXCEPT !.timeLeft = @ - 1]
        b == IF a.onTimerTick = "set"
             THEN Fire(a, [cb |-> "onTimerTick", timeLeft |-> a.timeLeft]) ELSE a
        c == IF timeUp(b)
             THEN LET g == [b EXCEPT !.gameOver = TRUE]
                      h == IF g.timerInterval # 0
                           THEN [clearInterval(g, g.timerInterval) EXCEPT !.timerInterval = 0]
                           ELSE g
                  IN  IF h.onGameEnd = "set"
                      THEN Fire(h, [cb |-> "onGameEnd", outcome |-> "timeout"]) ELSE h
             ELSE b
    IN  notifyUpdate(c)

init(st, n) ==
    LET a == [st EXCEPT !.onUpdate = "set", !.onTimerTick = "set", !.onGameEnd = "set"]
        b == reset(a, n)
    IN  [b EXCEPT !.result = getState(b)]

\* setDifficulty changing the budgets of the game in progress (no reset)
setDifficulty_KeepsGame(st, level, n) ==
    IF ~hasSetting(level) THEN [st EXCEPT !.result = Undefined]
    ELSE [st EXCEPT !.difficulty = level,
                    !.maxAttempts = settingOf(level).attempts,
                    !.maxHints = settingOf(level).hints,
                    !.result = Undefined]

setDifficulty(st, level, n) ==
    IF ~hasSetting(level) THEN [st EXCEPT !.result = Undefined]
    ELSE LET a == [st EXCEPT !.difficulty = level,
                             !.maxAttempts = settingOf(level).attempts,
                             !.maxHints = settingOf(level).hints]
         IN  [reset(a, n) EXCEPT !.result = Undefined]

setTimerMode(st, enabled, seconds, n) ==
    LET a == [st EXCEPT !.timerMode = enabled, !.timerDuration = seconds]
        b == IF enabled THEN resetTimer(a)
             ELSE IF a.timerInterval # 0
                  THEN [clearInterval(a, a.timerInterval) EXCEPT !.timerInterval = 0]
                  ELSE a
    IN  [reset(b, n) EXCEPT !.result = Undefined]

----------------------------------------------------------------------------
(* Guess analysis *)

MapGet(m, k) == IF k \in DOMAIN m THEN m[k] ELSE 0
MapSet(m, k, v) == IF k \in DOMAIN m THEN [m EXCEPT ![k] = v] ELSE m @@ (k :> v)

EmptyMap == [k \in {} |-> 0]

\* exactLoop counting the digits of exact positions into the frequency maps too
RECURSIVE exactLoop_CountsAll(_, _, _, _)
exactLoop_CountsAll(target, attempt, i, acc) ==
    IF i >= 4 THEN acc
    ELSE exactLoop_CountsAll(target, attempt, i + 1,
            [acc EXCEPT
               !.exact = IF CharAt(attempt, i) = CharAt(target, i) THEN @ + 1 ELSE @,
               !.targetFreq = MapSet(@, CharAt(target, i), MapGet(@, CharAt(target, i)) + 1),
               !.guessFreq  = MapSet(@, CharAt(attempt, i), MapGet(@, CharAt(attempt, i)) + 1)])

\* the first loop of analyzeGuess from index i on, with the loop's variables in acc
RECURSIVE exactLoop(_, _, _, _)
exactLoop(target, attempt, i, acc) ==
    IF i >= 4 THEN acc
    ELSE exactLoop(target, attempt, i + 1,
            IF CharAt(attempt, i) = CharAt(target, i)
            THEN [acc EXCEPT !.exact = @ + 1]
            ELSE [acc EXCEPT
                    !.targetFreq = MapSet(@, CharAt(target, i), MapGet(@, CharAt(target, i)) + 1),
                    !.guessFreq  = MapSet(@, CharAt(attempt, i), MapGet(@, CharAt(attempt, i)) + 1)])

\* partialLoop crediting every occurrence in the guess (no Math.min)
RECURSIVE partialLoop_NoMin(_, _, _)
partialLoop_NoMin(targetFreq, guessFreq, todo) ==
    IF todo = {} THEN 0
    ELSE LET digit == CHOOSE d \in todo : TRUE
             count == guessFreq[digit]
         IN  (IF digit \in DOMAIN targetFreq THEN count ELSE 0)
             + partialLoop_NoMin(targetFreq, guessFreq, todo \ {digit})

\* the second loop of analyzeGuess over the entries of guessFreq not yet visited
RECURSIVE partialLoop(_, _, _)
partialLoop(targetFreq, guessFreq, todo) ==
    IF todo = {} THEN 0
    ELSE LET digit == CHOOSE d \in todo : TRUE
             count == guessFreq[digit]
         IN  (IF digit \in DOMAIN targetFreq THEN Min(count, targetFreq[digit]) ELSE 0)
             + partialLoop(targetFreq, guessFreq, todo \ {digit})

analyzeGuess(st, guess) ==
    LET acc == exactLoop(st.secret, guess, 0,
                         [exact |-> 0, targetFreq |-> EmptyMap, guessFreq |-> EmptyMap])
    IN  [ exact   |-> acc.exact,
          partial |-> partialLoop(acc.targetFreq, acc.guessFreq, DOMAIN acc.guessFreq) ]

\* the test without its end anchor: /^\d{4}/
IsFourDigits_NoEndAnchor(guess) ==
    Len(guess) >= 4 /\ \A i \in 1..4 : IsDigit(guess[i])

\* /^\d{4}$/.test(guess)
IsFourDigits(guess) == Len(guess) = 4 /\ \A i \in 1..Len(guess) : IsDigit(guess[i])

\* the tests of makeGuess and useHint as slips of the pen
guessAfterGameOver_Never(st) == FALSE

isLoss_OffByOne(st) == jsGeq(st.attempts, st.maxAttempts) /\ st.attempts > st.maxAttempts

winStopsTimer_Forgotten(st) == st

hintAfterGameOver_Never(st) == FALSE

hintsExhausted_OffByOne(st) == jsGeq(st.hintsUsed, st.maxHints) /\ st.hintsUsed > st.maxHints

\* the tests of makeGuess, in the order it makes them
guessAfterGameOver(st) == st.gameOver

attemptsExhausted(st) == jsGeq(st.attempts, st.maxAttempts)

isWin(analysis) == analysis.exact = 4

isLoss(st) == jsGeq(st.attempts, st.maxAttempts)

\* a win stops the countdown
winStopsTimer(st) ==
    IF st.timerInterval # 0
    THEN [clearInterval(st, st.timerInterval) EXCEPT !.timerInterval = 0]
    ELSE st

\* a loss leaving the countdown running
lossStopsTimer_Forgotten(st) == st

\* a loss stops the countdown
lossStopsTimer(st) ==
    IF st.timerInterval # 0
    THEN [clearInterval(st, st.timerInterval) EXCEPT !.timerInterval = 0]
    ELSE st

\* the tests of useHint
hintAfterGameOver(st) == st.gameOver

hintsExhausted(st) == jsGeq(st.hintsUsed, st.maxHints)

\* the guess entry appended at the end of the list
unshift_Push(list, entry) == Append(list, entry)

\* guesses.unshift(guessEntry)
unshift(list, entry) == <<entry>> \o list

makeGuess(st, guess) ==
    IF guessAfterGameOver(st)
    THEN [st EXCEPT !.result = [success |-> FALSE, message |-> "Game over. Start new game."]]
    ELSE IF attemptsExhausted(st)
    THEN LET a == [st EXCEPT !.gameOver = TRUE]
             b == IF a.onGameEnd = "set"
                  THEN Fire(a, [cb |-> "onGameEnd", outcome |-> "attempts"]) ELSE a
         IN  [b EXCEPT !.result = [success |-> FALSE, message |-> "Maximum attempts reached!"]]
    ELSE IF ~IsFourDigits(guess)
    THEN [st EXCEPT !.result = [success |-> FALSE, message |-> "Enter exactly 4 digits!"]]
    ELSE
      LET analysis   == analyzeGuess(st, guess)
          a          == [st EXCEPT !.attempts = @ + 1]
          guessEntry == [ attempt  |-> a.attempts,
                          sequence |-> guess,
                          exact    |-> analysis.exact,
                          partial  |-> analysis.partial ]
          b          == [a EXCEPT !.guesses = unshift(@, guessEntry)]
          score      == calculateScore(b, b.attempts, analysis.exact)
      IN  IF isWin(analysis)
          THEN LET c == winStopsTimer([b EXCEPT !.gameOver = TRUE])
                   d == IF c.onGameEnd = "set"
                        THEN Fire(c, [cb |-> "onGameEnd", outcome |-> "win",
                                      payload |-> [attempts |-> c.attempts, score |-> score]])
                        ELSE c
               IN  [notifyUpdate(d) EXCEPT
                       !.result = [success |-> TRUE, gameWon |-> TRUE,
                                   message |-> "ACCESS GRANTED! You win!", score |-> score]]
          ELSE LET c == IF isLoss(b)
                        THEN LET e == lossStopsTimer([b EXCEPT !.gameOver = TRUE])
                             IN  IF e.onGameEnd = "set"
                                 THEN Fire(e, [cb |-> "onGameEnd", outcome |-> "lose",
                                               payload |-> [secret |-> e.secret]])
                                 ELSE e
                        ELSE b
               IN  [notifyUpdate(c) EXCEPT
                       !.result = [success |-> TRUE, feedback |-> analysis,
                                   message |-> <<"Attempt", c.attempts, analysis.exact,
                                                 "exact", analysis.partial, "partial">>]]

\* useHint reporting the 0-based position
useHint_ZeroBased(st, pos) ==
    IF hintAfterGameOver(st)
    THEN [st EXCEPT !.result = [success |-> FALSE, message |-> "Game is over!"]]
    ELSE IF hintsExhausted(st)
    THEN [st EXCEPT !.result = [success |-> FALSE, message |-> "No hints remaining!"]]
    ELSE LET a     == [st EXCEPT !.hintsUsed = @ + 1]
             digit == CharAt(a.secret, pos)
         IN  [notifyUpdate(a) EXCEPT
                 !.result = [success |-> TRUE, position |-> pos, digit |-> digit,
                             remaining |-> jsMinus(a.maxHints, a.hintsUsed)]]

\* pos is the value of Math.floor(Math.random() * 4)
useHint(st, pos) ==
    IF hintAfterGameOver(st)
    THEN [st EXCEPT !.result = [success |-> FALSE, message |-> "Game is over!"]]
    ELSE IF hintsExhausted(st)
    THEN [st EXCEPT !.result = [success |-> FALSE, message |-> "No hints remaining!"]]
    ELSE LET a     == [st EXCEPT !.hintsUsed = @ + 1]
             digit == CharAt(a.secret, pos)
         IN  [notifyUpdate(a) EXCEPT
                 !.result = [success |-> TRUE, position |-> pos + 1, digit |-> digit,
                             remaining |-> jsMinus(a.maxHints, a.hintsUsed)]]

----------------------------------------------------------------------------
(* The state machine *)

\* the outcomes of the onGameEnd calls in a callback log
RECURSIVE Outcomes(_)
Outcomes(log) ==
    IF log = <<>> THEN <<>>
    ELSE (IF Head(log).cb = "onGameEnd" THEN <<Head(log).outcome>> ELSE <<>>)
         \o Outcomes(Tail(log))

\* the step that leaves the engine in state st after running op; isReset: reset() ran
Becomes(state, op, isReset, isTick) ==
  \E st \in {state} :
    /\ secret' = st.secret
    /\ attempts' = st.attempts
    /\ maxAttempts' = st.maxAttempts
    /\ gameOver' = st.gameOver
    /\ guesses' = st.guesses
    /\ hintsUsed' = st.hintsUsed
    /\ maxHints' = st.maxHints
    /\ difficulty' = st.difficulty
    /\ timerMode' = st.timerMode
    /\ timerDuration' = st.timerDuration
    /\ timerInterval' = st.timerInterval
    /\ timeLeft' = st.timeLeft
    /\ onUpdate' = st.onUpdate
    /\ onTimerTick' = st.onTimerTick
    /\ onGameEnd' = st.onGameEnd
    /\ intervals' = st.intervals
    /\ result' = st.result
    /\ fired' = st.fired
    /\ lastOp' = op
    /\ ticks' = IF isReset THEN 0 ELSE IF isTick THEN ticks + 1 ELSE ticks
    /\ ended' = IF isReset THEN <<>> ELSE ended \o Outcomes(st.fired)
    /\ UNCHANGED boardVars

\* the module's private variables as declared
Init ==
    /\ secret = <<>>
    /\ attempts = 0
    /\ maxAttempts = 15
    /\ gameOver = FALSE
    /\ guesses = <<>>
    /\ hintsUsed = 0
    /\ maxHints = 3
    /\ difficulty = "medium"
    /\ timerMode = FALSE
    /\ timerDuration = 0
    /\ timerInterval = 0
    /\ timeLeft = 0
    /\ onUpdate = "null"
    /\ onTimerTick = "null"
    /\ onGameEnd = "null"
    /\ intervals = {}
    /\ lastOp = [op |-> "load"]
    /\ result = Undefined
    /\ fired = <<>>
    /\ ticks = 0
    /\ ended = <<>>
    /\ scores = <<>>
    /\ boardOnUpdate = "null"
    /\ localStorage = EmptyStore

\* Game.init with the three callbacks, as UI.init calls it
DoInit ==
    \E n \in SecretNumbers :
        Becomes(init(Cur, n), [op |-> "init"], TRUE, FALSE)

DoReset ==
    \E n \in SecretNumbers :
        Becomes([reset(Cur, n) EXCEPT !.result = Undefined], [op |-> "reset"], TRUE, FALSE)

DoSetDifficulty ==
    \E level \in Levels, n \in SecretNumbers :
        Becomes(setDifficulty(Cur, level, n), [op |-> "setDifficulty", level |-> level],
                hasSetting(level), FALSE)

\* setTimerMode(true, seconds) and setTimerMode(false), whose seconds is the default
DoSetTimerMode ==
    \E call \in ({TRUE} \X (0..MaxDuration)) \cup {<<FALSE, DefaultSeconds>>},
       n \in SecretNumbers :
        Becomes(setTimerMode(Cur, call[1], call[2], n),
                [op |-> "setTimerMode", enabled |-> call[1], seconds |-> call[2]],
                TRUE, FALSE)

\* the player types the secret, the decoy, or something that is not 4 digits
DoMakeGuess ==
    /\ maxAttempts = UndefinedNumber => attempts < MaxOpenGuesses
    /\ \E guess \in {secret, Decoy} \cup InvalidInputs :
        Becomes(makeGuess(Cur, guess), [op |-> "makeGuess", guess |-> guess], FALSE, FALSE)

DoUseHint ==
    /\ maxHints = UndefinedNumber => hintsUsed < MaxOpenHints
    /\ \E pos \in HintPositions :
        Becomes(useHint(Cur, pos), [op |-> "useHint"], FALSE, FALSE)

\* Game.getState()
DoGetState ==
    Becomes([Cur EXCEPT !.result = getState(Cur)], [op |-> "getState"], FALSE, FALSE)

\* Game.calculateScore as UI.saveScoreWithName calls it, with (attempts, 4), and
\* with 100 attempts, where the floor applies
DoCalculateScore ==
    \E call \in {<<attempts, 4>>, <<100, 0>>} :
        Becomes([Cur EXCEPT !.result = [score |-> calculateScore(Cur, call[1], call[2])]],
                [op |-> "calculateScore", attemptsUsed |-> call[1], exactMatches |-> call[2]],
                FALSE, FALSE)

\* a live schedule runs its callback; the callback returns nothing
Tick ==
    \E h \in intervals :
        Becomes([timerCallback(Cur) EXCEPT !.result = Undefined], [op |-> "tick", handle |-> h],
                FALSE, TRUE)

Next ==
    \/ DoInit
    \/ DoReset
    \/ DoSetDifficulty
    \/ DoSetTimerMode
    \/ DoMakeGuess
    \/ DoUseHint
    \/ Tick

Spec == Init /\ [][Next]_vars

\* the game with the two queries of the public API that change nothing
NextQueries ==
    \/ Next
    \/ DoGetState
    \/ DoCalculateScore

SpecQueries == Init /\ [][NextQueries]_vars

\* the browser runs the callback of a live schedule every second: a tick that
\* stays possible is eventually run. The commands are those that read or
\* write the countdown or the end of the game (useHint touches neither).
NextLive ==
    \/ DoInit
    \/ DoSetTimerMode
    \/ DoMakeGuess
    \/ Tick

SpecLive == Init /\ [][NextLive]_vars /\ WF_vars(Tick)

----------------------------------------------------------------------------
(* Guess analysis on its own: every secret and every guess of 4 digits     *)
(* 1..MaxDigit, and one call of analyzeGuess.                              *)

Strings4 == [1..4 -> {DigitChars[d + 1] : d \in 1..MaxDigit}]

InitAnalyze ==
    /\ secret \in Strings4
    /\ lastOp \in {[op |-> "call", guess |-> g] : g \in Strings4}
    /\ attempts = 0
    /\ maxAttempts = 15
    /\ gameOver = FALSE
    /\ guesses = <<>>
    /\ hintsUsed = 0
    /\ maxHints = 3
    /\ difficulty = "medium"
    /\ timerMode = FALSE
    /\ timerDuration = 0
    /\ timerInterval = 0
    /\ timeLeft = 0
    /\ onUpdate = "null"
    /\ onTimerTick = "null"
    /\ onGameEnd = "null"
    /\ intervals = {}
    /\ result = Undefined
    /\ fired = <<>>
    /\ ticks = 0
    /\ ended = <<>>
    /\ scores = <<>>
    /\ boardOnUpdate = "null"
    /\ localStorage = EmptyStore

DoAnalyze ==
    /\ lastOp.op = "call"
    /\ result' = analyzeGuess(Cur, lastOp.guess)
    /\ lastOp' = [op |-> "analyzeGuess", guess |-> lastOp.guess]
    /\ UNCHANGED <<secret, attempts, maxAttempts, gameOver, guesses, hintsUsed, maxHints,
                   difficulty, timerMode, timerDuration, timerInterval, timeLeft,
                   onUpdate, onTimerTick, onGameEnd, intervals, fired, ticks, ended>>
    /\ UNCHANGED boardVars

NextAnalyze == DoAnalyze

SpecAnalyze == InitAnalyze /\ [][NextAnalyze]_vars

\* the game and the analysis side by side
InitBoth == Init \/ InitAnalyze

NextBoth ==
    \/ (lastOp.op \notin {"call", "analyzeGuess"} /\ Next)
    \/ DoAnalyze

SpecBoth == InitBoth /\ [][NextBoth]_vars

----------------------------------------------------------------------------
(* The Leaderboard module.  Its state and what one call reports travel as   *)
(* one record; thrown is set when an exception leaves the call.  The id,    *)
(* date and timestamp of an entry are never read and are left out.          *)

\* MAX_ENTRIES of the source is 100; the model keeps lists short
MAX_ENTRIES == 2

\* addScore is run while totalGames is below MaxGames
MaxGames == MAX_ENTRIES

Board == [ scores |-> scores, onUpdate |-> boardOnUpdate, store |-> localStorage,
           result |-> result, fired |-> <<>>, thrown |-> FALSE ]

Throw(bd) == [bd EXCEPT !.thrown = TRUE]

Return(bd, v) == [bd EXCEPT !.result = [value |-> v]]

\* Array.prototype.slice(0, n) for n >= 0
slice(list, n) == SubSeq(list, 1, Min(n, Len(list)))

\* the place of e in a list sorted by falling score: behind every entry whose
\* score is not lower
RECURSIVE insertByScore(_, _)
insertByScore(sorted, e) ==
    IF sorted = <<>> THEN <<e>>
    ELSE IF Head(sorted).score >= e.score
         THEN <<Head(sorted)>> \o insertByScore(Tail(sorted), e)
         ELSE <<e>> \o sorted

\* sort leaving the list in rising order of score
RECURSIVE sort_Rising(_)
sort_Rising(list) ==
    IF list = <<>> THEN <<>>
    ELSE LET rest == sort_Rising(Tail(list))
             lower == SelectSeq(rest, LAMBDA x : x.score < Head(list).score)
             upper == SelectSeq(rest, LAMBDA x : x.score >= Head(list).score)
         IN  lower \o <<Head(list)>> \o upper

\* scores.sort((a, b) => b.score - a.score): a stable sort
RECURSIVE sort(_)
sort(list) ==
    IF list = <<>> THEN <<>>
    ELSE insertByScore(sort(SubSeq(list, 1, Len(list) - 1)), list[Len(list)])

loadScores(bd, fault) ==
    IF fault # "none" THEN [bd EXCEPT !.scores = <<>>]
    ELSE LET stored == bd.store.cyber_lock_scores
         IN  IF stored = Absent THEN [bd EXCEPT !.scores = <<>>]
             ELSE IF stored.text # "array" THEN [bd EXCEPT !.scores = <<>>]
             ELSE [bd EXCEPT !.scores = sort(parse(stored))]

\* saveScores returns false when the store throws; nothing is thrown on
saveScores(bd, fault) ==
    LET toSave == slice(bd.scores, MAX_ENTRIES)
    IN  IF fault # "none" THEN bd
        ELSE LET a == [bd EXCEPT !.store.cyber_lock_scores = stringify(toSave)]
             IN  IF a.onUpdate = "set"
                 THEN [a EXCEPT !.fired = Append(@, [cb |-> "boardOnUpdate", scores |-> toSave])]
                 ELSE a

\* updateStats with no try around its getItem and setItem calls
updateStats(bd, scoreData, fault) ==
    IF fault # "none" THEN Throw(bd)
    ELSE [bd EXCEPT !.store.totalGames = @ + 1,
                    !.store.totalWins = IF scoreData.won THEN @ + 1 ELSE @,
                    !.store.bestScore = IF scoreData.score > @ THEN scoreData.score ELSE @]

\* String.prototype.toUpperCase on the letters the model's names use
UpperCase == [a |-> "A", l |-> "L"]

toUpperCase(str) ==
    [k \in 1..Len(str) |-> IF str[k] \in DOMAIN UpperCase THEN UpperCase[str[k]] ELSE str[k]]

substring(str, from, to) == SubSeq(str, from + 1, Min(to, Len(str)))

\* scoreData null
NoData == [isNull |-> TRUE]

\* the entry addScore builds: it copies score, attempts, time and difficulty
entryOf(playerName, scoreData) ==
    [ player     |-> substring(toUpperCase(playerName), 0, 20),
      score      |-> scoreData.score,
      attempts   |-> scoreData.attempts,
      time       |-> scoreData.time,
      difficulty |-> IF scoreData.difficulty = "" THEN "medium" ELSE scoreData.difficulty ]

addScore(bd, playerName, scoreData, fault) ==
    IF playerName = <<>> \/ scoreData = NoData THEN Return(bd, FALSE)
    ELSE LET entry == entryOf(playerName, scoreData)
             a == [bd EXCEPT !.scores = slice(sort(Append(@, entry)), MAX_ENTRIES)]
             b == saveScores(a, fault)
             c == updateStats(b, scoreData, fault)
         IN  IF c.thrown THEN c ELSE Return(c, entry)

getScores(bd, level) ==
    IF level = "all" THEN bd.scores
    ELSE SelectSeq(bd.scores, LAMBDA x : x.difficulty = level)

getTopScores(bd, limit, level) ==
    slice(IF level = "all" THEN bd.scores
          ELSE SelectSeq(bd.scores, LAMBDA x : x.difficulty = level), limit)

getRank(bd, score) ==
    LET hits == {k \in 1..Len(bd.scores) : bd.scores[k].score <= score}
    IN  IF hits = {} THEN Len(bd.scores) + 1
        ELSE CHOOSE k \in hits : \A j \in hits : k <= j

\* confirmed: what confirm() answered
clearAll(bd, confirmed, fault) ==
    IF ~confirmed THEN Return(bd, FALSE)
    ELSE LET a == saveScores([bd EXCEPT !.scores = <<>>], fault)
         IN  IF fault # "none" THEN Throw(a)
             ELSE Return([a EXCEPT !.store.totalGames = 0, !.store.totalWins = 0,
                                   !.store.bestScore = 0], TRUE)

importScores(bd, jsonData, fault) ==
    IF jsonData.text # "array" THEN Return(bd, FALSE)
    ELSE LET a == [bd EXCEPT !.scores = slice(sort(@ \o parse(jsonData)), MAX_ENTRIES)]
         IN  Return(saveScores(a, fault), TRUE)

boardInit(bd, callback, fault) ==
    LET a == loadScores([bd EXCEPT !.onUpdate = callback], fault)
    IN  Return(a, getScores(a, "all"))

\* Game.getStats with calculateAverageAttempts, which reads the item 'scores'
\* that no code writes
getStats(bd, fault) ==
    IF fault # "none" THEN Throw(bd)
    ELSE IF bd.store.scores = Garbage THEN Throw(bd)
    ELSE Return(bd, [ totalGames      |-> bd.store.totalGames,
                      totalWins       |-> bd.store.totalWins,
                      bestScore       |-> bd.store.bestScore,
                      averageAttempts |-> 0 ])

----------------------------------------------------------------------------
(* The commands of the UI that use both modules *)

\* state.secret is falsy only when it is the empty string
saveScore(st) ==
    LET state == getState(st)
    IN  IF ~state.gameOver \/ state.secret = <<>>
        THEN [message |-> "Complete a game first!"]
        ELSE [modal |-> "show"]

\* the score data saveScoreWithName hands to addScore
scoreDataOf(st) ==
    LET state == getState(st)
    IN  [ score      |-> calculateScore(st, state.attempts, 4),
          attempts   |-> state.attempts,
          time       |-> IF state.timerMode THEN state.timerDuration - state.timeLeft ELSE 0,
          difficulty |-> state.difficulty,
          hintsUsed  |-> state.hintsUsed,
          won        |-> TRUE ]

saveScoreWithName(bd, st, playerName, fault) ==
    IF playerName = <<>> THEN [bd EXCEPT !.result = [message |-> "Enter your name!"]]
    ELSE LET a == addScore(bd, playerName, scoreDataOf(st), fault)
         IN  IF a.thrown THEN a ELSE [a EXCEPT !.result = [message |-> "Score saved!"]]

\* scores.some(s => s.hintsUsed === 0 && s.score > 900); an entry without the
\* property hintsUsed has undefined there
perfectBreach(list) ==
    \E k \in 1..Len(list) : /\ "hintsUsed" \in DOMAIN list[k]
                             /\ list[k].hintsUsed = 0
                             /\ list[k].score > 900

\* the six unlocked flags updateAchievements computes
updateAchievements(bd, st, fault) ==
    LET a == getStats(bd, fault)
    IN  IF a.thrown THEN a
        ELSE LET stats == a.result.value
                 list  == getScores(a, "all")
                 some(P(_)) == \E k \in 1..Len(list) : P(list[k])
             IN  Return(a,
                   [ firstBlood    |-> stats.totalWins > 0,
                     codeMaster    |-> stats.totalWins >= 10,
                     perfectBreach |-> perfectBreach(list),
                     speedRunner   |-> some(LAMBDA x : x.time < 30),
                     top10         |-> getRank(a, getState(st).score) <= 10,
                     hardcore      |-> some(LAMBDA x : x.difficulty = "hard" /\ x.score > 800) ])

----------------------------------------------------------------------------
(* The state machine of the Leaderboard and of the UI commands *)

PlayerNames == {<<>>, <<"a", "l">>}

ScoreInputs ==
    { [score |-> 950, attempts |-> 1, time |-> 0, difficulty |-> "easy",
       hintsUsed |-> 0, won |-> TRUE],
      [score |-> 500, attempts |-> 4, time |-> 0, difficulty |-> "hard",
       hintsUsed |-> 3, won |-> FALSE],
      NoData }

\* an exported list that is not in order of score, a text that does not
\* parse, and the JSON of a number
ImportTexts ==
    { stringify(<< [player |-> <<"B">>, score |-> 500, attempts |-> 6, time |-> 0,
                    difficulty |-> "easy"],
                   [player |-> <<"B">>, score |-> 700, attempts |-> 6, time |-> 0,
                    difficulty |-> "hard"] >>),
      Garbage, NumberText }

\* the step that leaves the Leaderboard in state bd after running op
BoardBecomes(board, op) ==
  \E bd \in {board} :
    /\ scores' = bd.scores
    /\ boardOnUpdate' = bd.onUpdate
    /\ localStorage' = bd.store
    /\ result' = IF bd.thrown THEN [thrown |-> TRUE] ELSE bd.result
    /\ fired' = bd.fired
    /\ lastOp' = op
    /\ UNCHANGED <<secret, attempts, maxAttempts, gameOver, guesses, hintsUsed, maxHints,
                   difficulty, timerMode, timerDuration, timerInterval, timeLeft,
                   onUpdate, onTimerTick, onGameEnd, intervals, ticks, ended>>

DoBoardInit ==
    \E callback \in {"null", "set"}, fault \in StoreFaults :
        BoardBecomes(boardInit(Board, callback, fault), [op |-> "Leaderboard.init"])

DoAddScore ==
    /\ localStorage.totalGames < MaxGames
    /\ \E playerName \in PlayerNames, scoreData \in ScoreInputs, fault \in StoreFaults :
        BoardBecomes(addScore(Board, playerName, scoreData, fault),
                     [op |-> "addScore"])

DoImportScores ==
    \E jsonData \in ImportTexts, fault \in StoreFaults :
        BoardBecomes(importScores(Board, jsonData, fault), [op |-> "importScores"])

DoClearAll ==
    \E confirmed \in BOOLEAN, fault \in StoreFaults :
        BoardBecomes(clearAll(Board, confirmed, fault), [op |-> "clearAll"])

DoGetTopScores ==
    \E limit \in {1}, level \in {"all", "hard"} :
        BoardBecomes(Return(Board, getTopScores(Board, limit, level)),
                     [op |-> "getTopScores", limit |-> limit, level |-> level])

DoGetRank ==
    \E score \in {500} :
        BoardBecomes(Return(Board, getRank(Board, score)), [op |-> "getRank", score |-> score])

DoGetStats ==
    \E fault \in StoreFaults :
        BoardBecomes(getStats(Board, fault), [op |-> "getStats"])

\* something else writes a text that does not parse under one of the two keys
Tamper ==
    /\ \E key \in {"cyber_lock_scores", "scores"} :
          /\ localStorage[key] # Garbage
          /\ localStorage' = [localStorage EXCEPT ![key] = Garbage]
    /\ lastOp' = [op |-> "tamper"]
    /\ result' = Undefined
    /\ fired' = <<>>
    /\ UNCHANGED <<secret, attempts, maxAttempts, gameOver, guesses, hintsUsed, maxHints,
                   difficulty, timerMode, timerDuration, timerInterval, timeLeft,
                   onUpdate, onTimerTick, onGameEnd, intervals, ticks, ended,
                   scores, boardOnUpdate>>

NextBoard ==
    \/ DoBoardInit
    \/ DoAddScore
    \/ DoImportScores
    \/ DoClearAll
    \/ DoGetTopScores
    \/ DoGetRank
    \/ DoGetStats
    \/ Tamper

SpecBoard == Init /\ [][NextBoard]_vars

\* UI.saveScore
DoSaveScore ==
    BoardBecomes([Board EXCEPT !.result = saveScore(Cur)], [op |-> "saveScore"])

\* UI.saveScoreWithName, with what the player typed as the name; run while
\* the list holds fewer than MaxSaves entries.  The store works during the
\* commands of the page; its failures are those of SpecBoard.
DoSaveScoreWithName ==
    /\ Len(scores) < MaxSaves
    /\ \E playerName \in PlayerNames :
        BoardBecomes(saveScoreWithName(Board, Cur, playerName, "none"),
                     [op |-> "saveScoreWithName", name |-> playerName])

\* UI.updateAchievements
DoUpdateAchievements ==
    BoardBecomes(updateAchievements(Board, Cur, "none"), [op |-> "updateAchievements"])

\* the commands of the page: UI.init (Game.init), UI.newGame (Game.reset),
\* UI.makeGuess, UI.useHint, UI.saveScore, UI.saveScoreWithName and
\* UI.updateAchievements
NextUI ==
    \/ DoInit
    \/ DoReset
    \/ DoMakeGuess
    \/ DoUseHint
    \/ DoSaveScore
    \/ DoSaveScoreWithName
    \/ DoUpdateAchievements

SpecUI == Init /\ [][NextUI]_vars

----------------------------------------------------------------------------
(* Vocabulary of the properties *)

\* what an operation may change apart from its own report (lastOp, result, fired)
engineVars == <<secret, attempts, maxAttempts, gameOver, guesses, hintsUsed, maxHints,
                difficulty, timerMode, timerDuration, timerInterval, timeLeft,
                onUpdate, onTimerTick, onGameEnd, intervals>>

FourDigitStrings == [1..4 -> {"0", "1", "2", "3", "4", "5", "6", "7", "8", "9"}]

\* the operations that are to start a new game: init, reset, setTimerMode and
\* setDifficulty with one of the three levels
ResetOp(o) ==
    \/ o.op \in {"init", "reset", "setTimerMode"}
    \/ (o.op = "setDifficulty" /\ o.level \in {"easy", "medium", "hard"})

\* the operations in which the code runs reset(): setDifficulty does so for every
\* name it finds in DIFFICULTY_SETTINGS, inherited names included
RunsReset(o) ==
    \/ ResetOp(o)
    \/ (o.op = "setDifficulty" /\ o.level \in InheritedKeys)

NonWinning(gs, sec) == \A i \in 1..Len(gs) : gs[i].sequence # sec

\* the whole attempt budget went into wrong guesses
BudgetSpent == Len(guesses) = maxAttempts /\ NonWinning(guesses, secret)

\* the countdown of the current game has run out
TimedOut == timerMode /\ ticks > 0 /\ timeLeft <= 0

ExactSpec(S, G) == Cardinality({i \in 1..4 : S[i] = G[i]})

CountAt(str, pos, d) == Cardinality({i \in pos : str[i] = d})

RECURSIVE PartialUpTo(_, _, _)
PartialUpTo(S, G, k) ==
    IF k = 0 THEN 0
    ELSE LET pos == {i \in 1..4 : S[i] # G[i]}
         IN  Min(CountAt(S, pos, DigitChars[k]), CountAt(G, pos, DigitChars[k]))
             + PartialUpTo(S, G, k - 1)

PartialSpec(S, G) == PartialUpTo(S, G, Len(DigitChars))

ScoreSpec(a, h, tm, tl) ==
    LET raw == 1000 - 50 * a - 100 * h + (IF tm /\ tl > 0 THEN 10 * tl ELSE 0)
    IN  IF raw < 100 THEN 100 ELSE raw

InRange(r) ==
    /\ 0 <= r.exact /\ r.exact <= 4
    /\ 0 <= r.partial /\ r.partial <= 4 - r.exact

----------------------------------------------------------------------------
(* Properties *)

\* C1 as stated: analyzeGuess returns exact = the number of positions where
\* secret and guess agree, and partial = the sum over the digits d of the
\* smaller of d's counts among the non-exact positions of the secret and of
\* the guess; 1122 against 1234 and 1123 against 1111 both give (1, 1).
C1_Original ==
    lastOp.op = "analyzeGuess" =>
        /\ result.exact = ExactSpec(secret, lastOp.guess)
        /\ result.partial = PartialSpec(secret, lastOp.guess)
        /\ (secret = <<"1", "1", "2", "2">> /\ lastOp.guess = <<"1", "2", "3", "4">>
                => result = [exact |-> 1, partial |-> 1])
        /\ (secret = <<"1", "1", "2", "3">> /\ lastOp.guess = <<"1", "1", "1", "1">>
                => result = [exact |-> 1, partial |-> 1])

\* C1 as amended: the same counts, with 1122 against 1234 giving (1, 1) and
\* 1123 against 1111 giving (2, 0): the guess agrees with the secret at its
\* first two positions and no 1 is left over in the secret.
C1_AnalyzeGuessCounts ==
    lastOp.op = "analyzeGuess" =>
        /\ result.exact = ExactSpec(secret, lastOp.guess)
        /\ result.partial = PartialSpec(secret, lastOp.guess)
        /\ (secret = <<"1", "1", "2", "2">> /\ lastOp.guess = <<"1", "2", "3", "4">>
                => result = [exact |-> 1, partial |-> 1])
        /\ (secret = <<"1", "1", "2", "3">> /\ lastOp.guess = <<"1", "1", "1", "1">>
                => result = [exact |-> 2, partial |-> 0])

C1_Witness ==
    /\ lastOp.op = "analyzeGuess"
    /\ secret = <<"1", "1", "2", "3">>
    /\ lastOp.guess = <<"1", "1", "1", "1">>
    /\ result = [exact |-> 2, partial |-> 0]

\* C2: every analysis result, and so every record stored in guesses, has
\* 0 <= exact <= 4 and 0 <= partial <= 4 - exact, and a guess equal to the
\* secret is analysed as exact = 4, partial = 0.
C2_AnalysisInRange ==
    /\ lastOp.op = "analyzeGuess" =>
          /\ InRange(result)
          /\ (lastOp.guess = secret => result = [exact |-> 4, partial |-> 0])
    /\ \A i \in 1..Len(guesses) :
          /\ InRange(guesses[i])
          /\ (guesses[i].sequence = secret => guesses[i].exact = 4 /\ guesses[i].partial = 0)

C2_Witness ==
    /\ Len(guesses) >= 2
    /\ guesses[1].sequence = secret
    /\ guesses[1].exact = 4
    /\ guesses[2].exact = 1
    /\ guesses[2].partial = 1

\* C3: attempts stays within 0..maxAttempts, and a step lowers it only if it
\* is one of the operations that run reset().
C3_AttemptsBounded ==
    /\ [](0 <= attempts /\ attempts <= maxAttempts)
    /\ [][attempts' < attempts => ResetOp(lastOp')]_vars

\* what C3 says, for as long as setDifficulty is not given an inherited name
C3_ForOwnLevels ==
    /\ [](difficulty \in {"easy", "medium", "hard"}
            => 0 <= attempts /\ attempts <= maxAttempts)
    /\ [][attempts' < attempts => RunsReset(lastOp')]_vars

\* C4: once maxAttempts wrong guesses have been made the game is over and
\* onGameEnd was called with 'lose' and the secret; with fewer wrong guesses
\* and no timeout the game is not over.
C4_LossAtBudget ==
    /\ BudgetSpent => gameOver /\ (onGameEnd = "set" => ended = <<"lose">>)
    /\ (BudgetSpent /\ lastOp.op = "makeGuess" /\ result.success /\ onGameEnd = "set")
          => \E k \in 1..Len(fired) :
                /\ fired[k].cb = "onGameEnd"
                /\ fired[k].outcome = "lose"
                /\ fired[k].payload = [secret |-> secret]
    /\ (Len(guesses) < maxAttempts /\ NonWinning(guesses, secret) /\ ~TimedOut) => ~gameOver

C4_Witness ==
    /\ BudgetSpent
    /\ lastOp.op = "makeGuess"
    /\ result.success
    /\ difficulty = "medium"
    /\ ended = <<"lose">>

\* C5 as stated: a makeGuess made once the budget is spent on wrong guesses
\* reports 'Maximum attempts reached!' with onGameEnd('attempts'), and adds
\* no record.
C5_Original ==
    [][ (BudgetSpent /\ lastOp'.op = "makeGuess")
            => /\ result'.success = FALSE
               /\ result'.message = "Maximum attempts reached!"
               /\ (onGameEnd = "set" => Outcomes(fired') = <<"attempts">>)
               /\ guesses' = guesses ]_vars

\* C5 as amended: a makeGuess made once the budget is spent on wrong guesses
\* fails with 'Game over. Start new game.', calls no callback and changes
\* nothing, so it adds no record.
C5_ExtraGuessRejected ==
    [][ (BudgetSpent /\ lastOp'.op = "makeGuess")
            => /\ result' = [success |-> FALSE, message |-> "Game over. Start new game."]
               /\ fired' = <<>>
               /\ guesses' = guesses
               /\ UNCHANGED engineVars ]_vars

C5_Witness ==
    /\ BudgetSpent
    /\ lastOp.op = "makeGuess"
    /\ result.success = FALSE
    /\ lastOp.guess = Decoy

\* C6: a 4-digit guess made while the game is not over wins exactly if it is
\* the secret; a win sets gameOver, cancels the countdown and calls onGameEnd
\* once, with 'win', the attempts and calculateScore(attempts), also on the
\* last attempt of the budget.
C6_WinIffSecret ==
    [][ (~gameOver /\ lastOp'.op = "makeGuess" /\ lastOp'.guess \in FourDigitStrings)
            => LET won == "gameWon" \in DOMAIN result'
                   sc  == ScoreSpec(attempts + 1, hintsUsed, timerMode, timeLeft)
               IN  /\ won <=> (lastOp'.guess = secret)
                   /\ won => /\ gameOver'
                             /\ result'.success
                             /\ result'.score = sc
                             /\ attempts' = attempts + 1
                             /\ timerInterval' = 0
                             /\ intervals' = {}
                             /\ (onGameEnd = "set" =>
                                   /\ Outcomes(fired') = <<"win">>
                                   /\ fired'[1] = [cb |-> "onGameEnd", outcome |-> "win",
                                                   payload |-> [attempts |-> attempts + 1,
                                                                score |-> sc]]) ]_vars

C6_Witness ==
    /\ lastOp.op = "makeGuess"
    /\ "gameWon" \in DOMAIN result
    /\ attempts = maxAttempts
    /\ timerMode
    /\ timeLeft = 1
    /\ ended = <<"win">>

C8_InvalidInputRejected ==
    [][ (~gameOver /\ attempts < maxAttempts /\ lastOp'.op = "makeGuess"
            /\ lastOp'.guess \notin FourDigitStrings)
            => /\ result'.success = FALSE
               /\ fired' = <<>>
               /\ UNCHANGED engineVars ]_vars

C8_Witness ==
    /\ ~gameOver
    /\ attempts > 0
    /\ attempts < maxAttempts
    /\ lastOp.op = "makeGuess"
    /\ lastOp.guess = <<"1", "2", "3", "4", "5">>
    /\ result = [success |-> FALSE, message |-> "Enter exactly 4 digits!"]

\* C9: hintsUsed stays within 0..maxHints, and a useHint made with
\* hintsUsed = maxHints fails, changes no state and calls no callback.
C9_HintBudget ==
    /\ [](0 <= hintsUsed /\ hintsUsed <= maxHints)
    /\ [][ (hintsUsed = maxHints /\ lastOp'.op = "useHint")
              => /\ result'.success = FALSE
                 /\ fired' = <<>>
                 /\ UNCHANGED engineVars ]_vars

\* what C9 says, for as long as setDifficulty is not given an inherited name
C9_ForOwnLevels ==
    /\ [](difficulty \in {"easy", "medium", "hard"}
            => 0 <= hintsUsed /\ hintsUsed <= maxHints)
    /\ [][ (hintsUsed = maxHints /\ lastOp'.op = "useHint")
              => /\ result'.success = FALSE
                 /\ fired' = <<>>
                 /\ UNCHANGED engineVars ]_vars

\* C10: in timer mode with duration timerDuration and no guess made, the
\* game is over with one 'timeout' exactly when timerDuration ticks have run,
\* is not over before, and no tick runs afterwards.
C10_TimeoutAfterDuration ==
    (timerMode /\ guesses = <<>>) =>
        /\ ticks <= timerDuration
        /\ ticks < timerDuration => ~gameOver
        /\ ticks = timerDuration =>
              /\ gameOver
              /\ intervals = {}
              /\ (onGameEnd = "set" => ended = <<"timeout">>)

\* the scenario of C10 holds for the durations of at least one second
C10_PositiveDurations ==
    (timerMode /\ guesses = <<>> /\ timerDuration >= 1) =>
        /\ ticks <= timerDuration
        /\ ticks < timerDuration => ~gameOver
        /\ ticks = timerDuration =>
              /\ gameOver
              /\ intervals = {}
              /\ (onGameEnd = "set" => ended = <<"timeout">>)

\* the mask getState shows while the game runs
Mask == <<"?", "?", "?", "?">>

\* the snapshots the last operation handed out: to onUpdate, and as its result
SnapshotOk(snap) == snap.secret = (IF snap.gameOver THEN secret ELSE Mask)

\* C11: at most one countdown schedule exists, it is the one whose handle the
\* engine holds, and every tick comes from that schedule while timer mode is
\* on and the game is running.
C11_OneCountdown ==
    /\ [](/\ Cardinality(intervals) <= 1
          /\ intervals = (IF timerInterval = 0 THEN {} ELSE {timerInterval}))
    /\ [][ lastOp'.op = "tick"
              => /\ intervals = {lastOp'.handle}
                 /\ timerInterval = lastOp'.handle
                 /\ timerMode /\ ~gameOver
                 /\ timeLeft' = timeLeft - 1 ]_vars

C11_Witness ==
    /\ lastOp.op = "setTimerMode"
    /\ lastOp.enabled
    /\ lastOp.seconds = 1
    /\ Cardinality(intervals) = 1
    /\ timeLeft = 1

\* C12: timeLeft stays within 0..timerDuration for every duration from 0 on,
\* and onTimerTick is never given a negative value.
C12_TimeLeftInRange ==
    /\ 0 <= timeLeft
    /\ timeLeft <= timerDuration
    /\ \A k \in 1..Len(fired) : fired[k].cb = "onTimerTick" => fired[k].timeLeft >= 0

\* C13: every snapshot, returned by getState or init or passed to onUpdate,
\* shows the mask '????' as its secret if its gameOver is false and the secret
\* if its gameOver is true.
C13_SecretMasked ==
    /\ \A k \in 1..Len(fired) : fired[k].cb = "onUpdate" => SnapshotOk(fired[k].state)
    /\ lastOp.op \in {"init", "getState"} => SnapshotOk(result)

C13_Witness ==
    /\ lastOp.op = "tick"
    /\ gameOver
    /\ Len(fired) = 3
    /\ fired[3].cb = "onUpdate"
    /\ fired[3].state.gameOver
    /\ fired[3].state.secret = secret
    /\ secret # Mask

\* C14: reset() leaves attempts = 0, hintsUsed = 0, no guesses, gameOver
\* false and a secret of 4 digits, keeps difficulty, the budgets, timerMode and
\* timerDuration, and in timer mode leaves exactly one countdown, with
\* timeLeft = timerDuration and no tick run yet.
C14_ResetFresh ==
    [][ lastOp'.op = "reset"
          => /\ attempts' = 0 /\ hintsUsed' = 0 /\ guesses' = <<>> /\ ~gameOver'
             /\ secret' \in FourDigitStrings
             /\ UNCHANGED <<difficulty, maxAttempts, maxHints, timerMode, timerDuration>>
             /\ timerMode => /\ Cardinality(intervals') = 1
                             /\ intervals' = {timerInterval'}
                             /\ timeLeft' = timerDuration
                             /\ ticks' = 0
             /\ ~timerMode => intervals' = {} /\ timerInterval' = 0 ]_vars

C14_Witness ==
    /\ lastOp.op = "reset"
    /\ timerMode
    /\ timerDuration = 2
    /\ timeLeft = 2
    /\ Cardinality(intervals) = 1
    /\ onUpdate = "set"

\* C15: maxAttempts and maxHints are always the table's entry for the current
\* difficulty, easy (6, 5), medium (15, 3), hard (15, 0), and setDifficulty
\* with one of these levels ends in a freshly reset game.
C15_BudgetsFollowTable ==
    /\ [](/\ difficulty \in {"easy", "medium", "hard"}
          /\ difficulty = "easy" => maxAttempts = 6 /\ maxHints = 5
          /\ difficulty = "medium" => maxAttempts = 15 /\ maxHints = 3
          /\ difficulty = "hard" => maxAttempts = 15 /\ maxHints = 0)
    /\ [][ (lastOp'.op = "setDifficulty" /\ lastOp'.level \in {"easy", "medium", "hard"})
              => /\ difficulty' = lastOp'.level
                 /\ attempts' = 0 /\ hintsUsed' = 0 /\ guesses' = <<>> /\ ~gameOver'
                 /\ secret' \in FourDigitStrings ]_vars

\* what C15 says, for as long as setDifficulty is not given an inherited name
C15_ForOwnLevels ==
    /\ [](difficulty \in {"easy", "medium", "hard"} =>
            /\ difficulty = "easy" => maxAttempts = 6 /\ maxHints = 5
            /\ difficulty = "medium" => maxAttempts = 15 /\ maxHints = 3
            /\ difficulty = "hard" => maxAttempts = 15 /\ maxHints = 0)
    /\ [][ (lastOp'.op = "setDifficulty" /\ lastOp'.level \in {"easy", "medium", "hard"})
              => /\ difficulty' = lastOp'.level
                 /\ attempts' = 0 /\ hintsUsed' = 0 /\ guesses' = <<>> /\ ~gameOver'
                 /\ secret' \in FourDigitStrings ]_vars

\* C16: setDifficulty with a level other than easy, medium and hard changes
\* nothing and calls no callback.
C16_InvalidLevelNoOp ==
    [][ (lastOp'.op = "setDifficulty" /\ lastOp'.level \notin {"easy", "medium", "hard"})
          => UNCHANGED engineVars /\ fired' = <<>> ]_vars

\* what C16 says, for the names DIFFICULTY_SETTINGS neither has nor inherits
C16_ForUnknownNames ==
    [][ (lastOp'.op = "setDifficulty"
            /\ lastOp'.level \notin {"easy", "medium", "hard"} \cup InheritedKeys)
          => UNCHANGED engineVars /\ fired' = <<>> ]_vars

\* C17: the game is never running with attempts >= maxAttempts, and makeGuess
\* never reports 'Maximum attempts reached!' nor calls onGameEnd('attempts').
C17_NoExhaustedBranch ==
    /\ ~(~gameOver /\ maxAttempts # UndefinedNumber /\ attempts >= maxAttempts)
    /\ \A k \in 1..Len(ended) : ended[k] # "attempts"
    /\ \A k \in 1..Len(fired) : fired[k].cb = "onGameEnd" => fired[k].outcome # "attempts"
    /\ lastOp.op = "makeGuess" => result.message # "Maximum attempts reached!"

C17_Witness ==
    /\ lastOp.op = "makeGuess"
    /\ difficulty = "hard"
    /\ attempts = maxAttempts
    /\ gameOver
    /\ result = [success |-> FALSE, message |-> "Game over. Start new game."]

\* C18: calculateScore(a, e) is max(100, 1000 - 50 a - 100 hintsUsed + bonus),
\* bonus = 10 timeLeft in timer mode with timeLeft > 0 and 0 otherwise; it does
\* not depend on e, is at least 100, does not grow with a or with hintsUsed,
\* and the call changes no state.
C18_Score ==
    /\ [](/\ lastOp.op = "calculateScore" =>
                /\ result.score = ScoreSpec(lastOp.attemptsUsed, hintsUsed, timerMode, timeLeft)
                /\ result.score >= 100
          /\ \A st \in {[hintsUsed |-> hintsUsed, timerMode |-> timerMode, timeLeft |-> timeLeft]} :
             \A a \in 0..ScoreAttempts :
             \A score \in {calculateScore(st, a, 0)} :
                /\ score = calculateScore(st, a, 4)
                /\ score >= 100
                /\ calculateScore(st, a + 1, 0) <= score
                /\ calculateScore([st EXCEPT !.hintsUsed = @ + 1], a, 0) <= score)
    /\ [][ lastOp'.op = "calculateScore" => UNCHANGED engineVars /\ fired' = <<>> ]_vars

C18_Witness ==
    /\ lastOp.op = "calculateScore"
    /\ lastOp.attemptsUsed = 100
    /\ result.score = 100
    /\ timerMode
    /\ timeLeft > 0
    /\ hintsUsed > 0

\* C19: a useHint made while the game runs with hintsUsed < maxHints raises
\* hintsUsed by one and returns a position p in 1..4, the secret's character
\* at index p - 1 and remaining = maxHints - hintsUsed, and leaves attempts,
\* guesses, gameOver, secret and timeLeft alone.
C19_HintGiven ==
    [][ (~gameOver /\ maxHints # UndefinedNumber /\ hintsUsed < maxHints
            /\ lastOp'.op = "useHint")
          => /\ hintsUsed' = hintsUsed + 1
             /\ result'.success
             /\ result'.position \in 1..4
             /\ result'.digit = (IF result'.position <= Len(secret)
                                 THEN secret[result'.position] ELSE "undefined")
             /\ result'.remaining = maxHints - hintsUsed'
             /\ UNCHANGED <<attempts, guesses, gameOver, secret, timeLeft>> ]_vars

C19_Witness ==
    /\ lastOp.op = "useHint"
    /\ result.success
    /\ hintsUsed = 2
    /\ result.position = 3
    /\ result.digit = "2"
    /\ result.remaining = 3

\* C20: secret changes only in init, reset, setTimerMode and setDifficulty
\* with one of the levels easy, medium, hard.
C20_SecretChangesInReset ==
    [][ secret' # secret => ResetOp(lastOp') ]_vars

\* what C20 says, counting every setDifficulty that runs reset()
C20_SecretChangesWhereResetRuns ==
    [][ secret' # secret => RunsReset(lastOp') ]_vars

\* the names of the callbacks in a callback log
Names(log) == [k \in 1..Len(log) |-> log[k].cb]

\* onUpdate was called once, after every other callback, with the state the
\* operation left
NotifiedOnceLast ==
    /\ Cardinality({k \in 1..Len(fired') : fired'[k].cb = "onUpdate"}) = 1
    /\ fired'[Len(fired')] = [cb |-> "onUpdate", state |-> getState(Cur)']

\* what a tick calls: onTimerTick, onGameEnd('timeout') if the time is up, onUpdate
TickCallsInOrder ==
    /\ Names(fired') = (IF onTimerTick = "set" THEN <<"onTimerTick">> ELSE <<>>)
                       \o (IF onGameEnd = "set" /\ timeLeft' <= 0 THEN <<"onGameEnd">> ELSE <<>>)
                       \o (IF onUpdate = "set" THEN <<"onUpdate">> ELSE <<>>)
    /\ \A k \in 1..Len(fired') :
          /\ fired'[k].cb = "onTimerTick" => fired'[k].timeLeft = timeLeft'
          /\ fired'[k].cb = "onGameEnd" => fired'[k].outcome = "timeout"
          /\ fired'[k].cb = "onUpdate" => fired'[k].state = getState(Cur)'

\* C21: guesses holds one record per validated guess of the game, newest
\* first: its length is attempts, the record at 0-based index i carries the
\* number attempts - i, and a makeGuess that fails adds no record.
C21_GuessesNumbered ==
    /\ [](/\ Len(guesses) = attempts
          /\ \A i \in 1..Len(guesses) : guesses[i].attempt = attempts - (i - 1))
    /\ [][ (lastOp'.op = "makeGuess" /\ ~result'.success) => guesses' = guesses ]_vars

C21_Witness ==
    /\ lastOp.op = "makeGuess"
    /\ result.success
    /\ attempts = 3
    /\ Len(guesses) = 3
    /\ guesses[1].attempt = 3
    /\ guesses[3].attempt = 1

\* C22: with onUpdate registered, reset, init, setTimerMode, setDifficulty
\* with one of the three levels, and a makeGuess or useHint that succeeds call
\* onUpdate exactly once, last, with the final state; a tick calls onTimerTick,
\* onGameEnd('timeout') if the time is up, then onUpdate; a makeGuess or
\* useHint that fails and a setDifficulty with another level call nothing.
C22_NotificationOrder ==
    [][ /\ (onUpdate' = "set"
               /\ \/ ResetOp(lastOp')
                  \/ (lastOp'.op \in {"makeGuess", "useHint"} /\ result'.success))
           => NotifiedOnceLast
        /\ lastOp'.op = "tick" => TickCallsInOrder
        /\ (lastOp'.op \in {"makeGuess", "useHint"} /\ ~result'.success) => fired' = <<>>
        /\ (lastOp'.op = "setDifficulty" /\ lastOp'.level \notin {"easy", "medium", "hard"})
           => fired' = <<>> ]_vars

\* what C22 says, with every setDifficulty that runs reset() counted as a
\* command that changes state
C22_ForCommandsThatChangeState ==
    [][ /\ (onUpdate' = "set"
               /\ \/ RunsReset(lastOp')
                  \/ (lastOp'.op \in {"makeGuess", "useHint"} /\ result'.success))
           => NotifiedOnceLast
        /\ lastOp'.op = "tick" => TickCallsInOrder
        /\ (lastOp'.op \in {"makeGuess", "useHint"} /\ ~result'.success) => fired' = <<>>
        /\ (lastOp'.op = "setDifficulty" /\ ~RunsReset(lastOp')) => fired' = <<>> ]_vars

\* C23: once no reset, setDifficulty or setTimerMode is issued any more, a
\* game in timer mode does not stay open for ever: ticks that are run fairly
\* end it, whatever guesses and hints are made.
C23_CountdownEndsGame ==
    <>[][~RunsReset(lastOp')]_vars => <>[](timerMode => gameOver)

C23_Witness ==
    /\ timerMode
    /\ gameOver
    /\ lastOp.op = "tick"
    /\ ticks = timerDuration
    /\ timerDuration = 2
    /\ attempts = 0
    /\ hintsUsed = 0

\* C26: a countdown schedule exists exactly when timerMode is true and
\* gameOver is false, and it is the one the engine holds.
C26_ScheduleIffRunning ==
    /\ (intervals # {}) <=> (timerMode /\ ~gameOver)
    /\ intervals # {} => intervals = {timerInterval}

C26_Witness ==
    /\ timerMode
    /\ gameOver
    /\ intervals = {}
    /\ timeLeft > 0
    /\ lastOp.op = "makeGuess"
    /\ ended = <<"lose">>

\* C27: between two resets onGameEnd is called at most once, and a step
\* calls it exactly when it turns gameOver from false to true.
C27_EndsOnce ==
    /\ [](Len(ended) <= 1)
    /\ [][ onGameEnd' = "set" =>
              /\ Len(Outcomes(fired')) <= 1
              /\ (Outcomes(fired') # <<>>) <=> (~gameOver /\ gameOver') ]_vars

C27_Witness ==
    /\ ended = <<"timeout">>
    /\ lastOp.op = "makeGuess"
    /\ ~result.success
    /\ difficulty = "easy"
    /\ attempts = 5

\* the operations that touch the store
StorageOps == {"Leaderboard.init", "addScore", "importScores", "clearAll", "getStats"}

\* C24: no operation that touches the store lets an exception out, whether
\* the store throws or holds a text that does not parse.
C24_StoreFailuresContained ==
    lastOp.op \in StorageOps => result # [thrown |-> TRUE]

\* what C24 says, of the operations whose store accesses are inside a try
C24_ContainedWhereTried ==
    lastOp.op \in {"Leaderboard.init", "importScores"} => result # [thrown |-> TRUE]

\* the game in progress is over and its last guess was the secret
GameWon == gameOver /\ guesses # <<>> /\ guesses[1].sequence = secret

\* C25: saveScoreWithName adds an entry, and counts a game in totalGames,
\* only when the current game has been won.
C25_SavedOnlyAfterWin ==
    [][ (lastOp'.op = "saveScoreWithName"
            /\ (scores' # scores \/ localStorage'.totalGames # localStorage.totalGames))
          => GameWon ]_vars

SortedByScore(list) ==
    \A i, j \in 1..Len(list) : i < j => list[i].score >= list[j].score

RankSpec(score) == 1 + Cardinality({k \in 1..Len(scores) : scores[k].score > score})

TopSpec(top, limit, level) ==
    /\ Len(top) <= limit
    /\ level # "all" => \A k \in 1..Len(top) : top[k].difficulty = level
    /\ SortedByScore(top)

\* C28: the score list is in order of falling score and holds at most
\* MAX_ENTRIES entries; getTopScores(n, d) returns at most n entries, all of
\* difficulty d unless d is 'all', in order of falling score; getRank(s) is 1
\* plus the number of entries whose score is above s.
C28_BoardSorted ==
    /\ SortedByScore(scores)
    /\ Len(scores) <= MAX_ENTRIES
    /\ \A limit \in 0..(MAX_ENTRIES + 1), level \in {"all", "easy", "medium", "hard"} :
          TopSpec(getTopScores(Board, limit, level), limit, level)
    /\ \A score \in {0, 100, 500, 700, 950, 1000} : getRank(Board, score) = RankSpec(score)
    /\ lastOp.op = "getTopScores" => TopSpec(result.value, lastOp.limit, lastOp.level)
    /\ lastOp.op = "getRank" => result.value = RankSpec(lastOp.score)

C28_Witness ==
    /\ lastOp.op = "getRank"
    /\ lastOp.score = 500
    /\ result.value = 3
    /\ Len(scores) = MAX_ENTRIES
    /\ scores[1].score = 950
    /\ scores[2].score = 700

\* C29: once a game won with no hint and a score above 900 is saved by
\* saveScoreWithName, the list is one for which updateAchievements reports
\* PERFECT BREACH unlocked.
C29_PerfectBreachUnlocked ==
    [][ (lastOp'.op = "saveScoreWithName" /\ scores' # scores
            /\ GameWon /\ hintsUsed = 0 /\ calculateScore(Cur, attempts, 4) > 900)
          => perfectBreach(scores') ]_vars

====
